---- MODULE Spec2Model ----
(***************************************************************************)
(* HeatStack: transient 1D heat conduction through a layered stack and the *)
(* bisection search for the outer (TPS) layer thickness.                   *)
(*                                                                         *)
(* Numbers.  Every C++ double is modelled as a binary fixed-point number:  *)
(* the integer n stands for the real n / One, One = 2^FracBits.  Sums and  *)
(* differences are exact; products and quotients are rounded to the        *)
(* nearest representable value, as binary64 rounds them (with a coarser    *)
(* quantum).  The running sum of the clock, currentTime += dt, is rounded  *)
(* to SigBits significant bits (ties to even), as binary64 rounds a sum to *)
(* 53: it is the sum whose accumulated rounding decides a step count.      *)
(* NaN stands for every non-finite double (inf, -inf, NaN): it is produced *)
(* by a division by zero, absorbs every operation and makes every          *)
(* comparison false.                                                       *)
(*                                                                         *)
(* Lengths are measured in units of the bisection tolerance (0.00001 m),   *)
(* so the tolerance is the fixed-point number One.                         *)
(*                                                                         *)
(* Locals.  A local variable that the code computes once and reads several *)
(* times is bound as  v \in { e }  inside                                  *)
(*     CHOOSE out \in { body(v) : v \in { e } } : TRUE                     *)
(* which is body(e) with e evaluated once.                                 *)
(***************************************************************************)
EXTENDS Integers, Sequences, FiniteSets, TLC

\* ------------------------------------------------------------------ bounds
FracBits == 8          \* fractional bits of the fixed-point numbers
MaxLayers == 3         \* layers of a stack in the grid specification
MaxPoints == 4         \* largest pointsPerLayer passed to generateGrid
SigBits == 6           \* significant bits a running sum keeps

\* ------------------------------------------------------- fixed-point double
One == 2^FracBits
NaN == -(2^30)
IsNaN(x) == x = NaN

\* a / b rounded to the nearest integer (half up), a >= 0, b > 0
RDiv(a, b) == (2 * a + b) \div (2 * b)

Abs(x) == IF x < 0 THEN -x ELSE x
Sign(a, b) == IF (a < 0) = (b < 0) THEN 1 ELSE -1

\* round(a * b / One) for a, b >= 0, without forming the product a * b
MulShift(a, b) ==
    LET ah == a \div One  al == a % One
        bh == b \div One  bl == b % One
    IN  ah * bh * One + ah * bl + al * bh + RDiv(al * bl, One)

\* round(a * One / b) for a >= 0, b > 0, without forming the product a * One
DivShift(a, b) == (a \div b) * One + RDiv((a % b) * One, b)

FAdd(a, b) == IF IsNaN(a) \/ IsNaN(b) THEN NaN ELSE a + b
FSub(a, b) == IF IsNaN(a) \/ IsNaN(b) THEN NaN ELSE a - b
FMul(a, b) ==
    IF IsNaN(a) \/ IsNaN(b) THEN NaN ELSE Sign(a, b) * MulShift(Abs(a), Abs(b))
FDiv(a, b) ==
    IF IsNaN(a) \/ IsNaN(b) \/ b = 0 THEN NaN
    ELSE Sign(a, b) * DivShift(Abs(a), Abs(b))
FLt(a, b) == ~IsNaN(a) /\ ~IsNaN(b) /\ a < b
FLe(a, b) == ~IsNaN(a) /\ ~IsNaN(b) /\ a <= b
FGt(a, b) == FLt(b, a)
FGe(a, b) == FLe(b, a)

\* the double with integer value n
Num(n) == n * One

\* the power of two q, q0 or larger, with x < 2^SigBits * q
RECURSIVE quantum(_, _)
quantum(x, q0) == IF x < 2^SigBits * q0 THEN q0 ELSE quantum(x, 2 * q0)

\* x >= 0 rounded to SigBits significant bits, ties to the even significand
RoundSig(x) ==
    LET q  == quantum(x, 1)
        lo == (x \div q) * q
    IN  IF 2 * (x - lo) < q THEN lo
        ELSE IF 2 * (x - lo) > q THEN lo + q
        ELSE IF (x \div q) % 2 = 0 THEN lo ELSE lo + q

\* a + b as a floating-point sum: rounded to SigBits significant bits
FAddR(a, b) ==
    IF IsNaN(a) \/ IsNaN(b) THEN NaN
    ELSE IF a + b < 0 THEN -RoundSig(-(a + b)) ELSE RoundSig(a + b)

\* ------------------------------------------------------------ Material/Stack
\* struct Material: the fields the solver reads (k, rho, c)
Material(k, rho, c) == [k |-> k, rho |-> rho, c |-> c]

\* struct Layer
Layer(m, thickness, numPoints) ==
    [material |-> m, thickness |-> thickness, numPoints |-> numPoints]

\* struct Stack, as the drivers build it before the first generateGrid
NewStack(layers) == [layers |-> layers, totalThickness |-> 0, xGrid |-> << >>]

\* generateGrid, inner loop: for (i = 1; i < pointsPerLayer; ++i) { x += dx; push_back(x) }
RECURSIVE layerCoords(_, _, _, _)
layerCoords(x, dx, i, pointsPerLayer) ==
    IF i < pointsPerLayer
    THEN << x + dx >> \o layerCoords(x + dx, dx, i + 1, pointsPerLayer)
    ELSE << >>

\* generateGrid, outer loop over stack.layers starting at layer k with running x
RECURSIVE gridFrom(_, _, _, _)
gridFrom(layers, k, x, pointsPerLayer) ==
    IF k > Len(layers) THEN << >>
    ELSE LET dx  == FDiv(layers[k].thickness, Num(pointsPerLayer - 1))
             pts == layerCoords(x, dx, 1, pointsPerLayer)
             xe  == IF pts = << >> THEN x ELSE pts[Len(pts)]
         IN  pts \o gridFrom(layers, k + 1, xe, pointsPerLayer)

\* generateGrid without stack.xGrid.clear(): the new points follow the old ones
generateGrid_Append(stack, pointsPerLayer) ==
    LET g == stack.xGrid \o << 0 >> \o gridFrom(stack.layers, 1, 0, pointsPerLayer)
    IN  [layers |-> [k \in DOMAIN stack.layers |->
                        [stack.layers[k] EXCEPT !.numPoints = pointsPerLayer]],
         totalThickness |-> g[Len(g)],
         xGrid |-> g]

\* MaterialProperties::generateGrid(stack, pointsPerLayer)
generateGrid(stack, pointsPerLayer) ==
    LET g == << 0 >> \o gridFrom(stack.layers, 1, 0, pointsPerLayer)
    IN  [layers |-> [k \in DOMAIN stack.layers |->
                        [stack.layers[k] EXCEPT !.numPoints = pointsPerLayer]],
         totalThickness |-> g[Len(g)],
         xGrid |-> g]

\* ------------------------------------------------------------- TimeHandler
\* TimeHandler::TimeHandler(totalTime, initialTimeStep, adaptive)
TimeHandler(totalTime, initialTimeStep, adaptive) ==
    [totalTime |-> totalTime, dt |-> initialTimeStep, currentTime |-> 0,
     adaptive |-> adaptive, stepCount |-> 0]

\* TimeHandler::advance
advance(th) ==
    [th EXCEPT !.currentTime = FAddR(th.currentTime, th.dt),
               !.stepCount = th.stepCount + 1]

\* adjustTimeStep without the test of the adaptive flag
thAdjustTimeStep_Always(th, newTimeStep) == [th EXCEPT !.dt = newTimeStep]

\* TimeHandler::adjustTimeStep
thAdjustTimeStep(th, newTimeStep) ==
    IF th.adaptive THEN [th EXCEPT !.dt = newTimeStep] ELSE th

\* TimeHandler::isFinished
thIsFinished(th) == FGe(th.currentTime, th.totalTime)

\* ------------------------------------------------------ BoundaryConditions
\* BoundaryCondition objects; NullBC is the null pointer the constructor stores
NullBC == [type |-> "null", value |-> 0]
DirichletCondition(temperature) == [type |-> "Dirichlet", value |-> temperature]
NeumannCondition(flux) == [type |-> "Neumann", value |-> flux]
RobinCondition(h, externalTemp) == [type |-> "Robin", value |-> FMul(h, externalTemp)]

\* getType / getValue (the position argument is ignored by all three variants)
getType(bc) == bc.type
getValue(bc) == bc.value

\* getValue reading the first coordinate of the position
getValueAt_Positional(bc, position) == FAdd(bc.value, position[1])

\* bc->getValue(position)
getValueAt(bc, position) == getValue(bc)

\* --------------------------------------------------------- BTCSMatrixSolver
\* element i (0-based, as in the C++ source) of a vector
At(v, i) == v[i + 1]
Zeros(n) == [j \in 1 .. n |-> 0]

\* BTCSMatrixSolver::BTCSMatrixSolver
NewMatrixSolver == [matrixSize |-> 0, a_ |-> << >>, b_ |-> << >>, c_ |-> << >>]

\* v.resize(n, 0.0): keeps the first n elements, pads with zeros
Resize(v, n) == [j \in 1 .. n |-> IF j <= Len(v) THEN v[j] ELSE 0]

\* BTCSMatrixSolver::setupMatrix throws std::length_error from a_.resize(size - 1)
\* when size is 0, after matrixSize is stored
setupMatrixThrows(size) == size = 0

\* BTCSMatrixSolver::setupMatrix
setupMatrix(ms, size) ==
    IF setupMatrixThrows(size) THEN [ms EXCEPT !.matrixSize = size]
    ELSE [matrixSize |-> size, a_ |-> Resize(ms.a_, size - 1),
          b_ |-> Resize(ms.b_, size), c_ |-> Resize(ms.c_, size - 1)]

\* solve, forward elimination loop: for (i = 1; i < matrixSize - 1; ++i)
RECURSIVE forwardElim(_, _, _, _)
forwardElim(ms, d, i, acc) ==
    IF i >= ms.matrixSize - 1 THEN acc
    ELSE LET denom == FSub(At(ms.b_, i), FMul(At(ms.a_, i - 1), At(acc.cp, i - 1)))
         IN  (CHOOSE out \in
                 { forwardElim(ms, d, i + 1, next) :
                   next \in { [cp |-> Append(acc.cp, FDiv(At(ms.c_, i), denom)),
                   dp |-> Append(acc.dp,
                            FDiv(FSub(At(d, i), FMul(At(ms.a_, i - 1), At(acc.dp, i - 1))),
                                 denom))] } } : TRUE)

\* solve, back substitution loop: for (i = matrixSize - 2; i >= 0; --i)
RECURSIVE backSubst(_, _, _, _)
backSubst(cp, dp, i, acc) ==
    IF i < 0 THEN acc
    ELSE (CHOOSE out \in
             { backSubst(cp, dp, i - 1, next) :
               next \in { << FSub(At(dp, i), FMul(At(cp, i), acc[1])) >> \o acc } } : TRUE)

\* BTCSMatrixSolver::solve throws when the right-hand side has the wrong size
solveThrows(ms, d) == Len(d) # ms.matrixSize

\* solve without the elimination: every row divided by its diagonal entry
solve_DiagonalOnly(ms, d) == [j \in 1 .. ms.matrixSize |-> FDiv(d[j], ms.b_[j])]

\* BTCSMatrixSolver::solve (Thomas algorithm), matrixSize >= 2
solve(ms, d) ==
    LET n == ms.matrixSize
        dLast(fw) ==
            FDiv(FSub(At(d, n - 1), FMul(At(ms.a_, n - 2), At(fw.dp, n - 2))),
                 FSub(At(ms.b_, n - 1), FMul(At(ms.a_, n - 2), At(fw.cp, n - 2))))
    IN  (CHOOSE out \in
            { backSubst(fw.cp, fw.dp, n - 2, << dLast(fw) >>) :
              fw \in { forwardElim(ms, d, 1,
                [cp |-> << FDiv(At(ms.c_, 0), At(ms.b_, 0)) >>,
                 dp |-> << FDiv(At(d, 0), At(ms.b_, 0)) >>]) } } : TRUE)

\* ------------------------------------------------------- HeatEquationSolver
Half == One \div 2

\* HeatEquationSolver::HeatEquationSolver(theta)
NewSolver(theta) ==
    [theta_ |-> theta, problemSize_ |-> 0,
     temperature_ |-> << >>, prevTemperature_ |-> << >>,
     stack_ |-> NewStack(<< >>), matrixSolver_ |-> NewMatrixSolver,
     timeHandler_ |-> TimeHandler(0, One, FALSE),
     outerBC_ |-> NullBC, innerBC_ |-> NullBC]

\* HeatEquationSolver::initialize without the two resize calls
initialize_NoResize(s, stack, timeHandler) ==
    LET n == Len(stack.xGrid)
    IN  [s EXCEPT !.stack_ = stack,
                  !.problemSize_ = n,
                  !.timeHandler_ = timeHandler,
                  !.matrixSolver_ = setupMatrix(s.matrixSolver_, n)]

\* HeatEquationSolver::initialize (it ends in setupMatrix, which throws when the
\* stack has no grid)
initialize(s, stack, timeHandler) ==
    LET n == Len(stack.xGrid)
    IN  [s EXCEPT !.stack_ = stack,
                  !.problemSize_ = n,
                  !.timeHandler_ = timeHandler,
                  !.temperature_ = Resize(s.temperature_, n),
                  !.prevTemperature_ = Resize(s.prevTemperature_, n),
                  !.matrixSolver_ = setupMatrix(s.matrixSolver_, n)]

\* HeatEquationSolver::setInitialTemperature: the size test that throws
setInitialTemperatureThrows(s, initialTemp) == Len(initialTemp) # s.problemSize_

\* setInitialTemperature without the size test
setInitialTemperature_Unchecked(s, initialTemp) ==
    [s EXCEPT !.temperature_ = initialTemp, !.prevTemperature_ = initialTemp]

\* HeatEquationSolver::setInitialTemperature
setInitialTemperature(s, initialTemp) ==
    IF setInitialTemperatureThrows(s, initialTemp) THEN s
    ELSE [s EXCEPT !.temperature_ = initialTemp, !.prevTemperature_ = initialTemp]

\* HeatEquationSolver::setBoundaryConditions
setBoundaryConditions(s, outerBC, innerBC) ==
    [s EXCEPT !.outerBC_ = outerBC, !.innerBC_ = innerBC]

\* getThermalDiffusivity: k / (rho * c) of one layer
layerAlpha(layer) ==
    FDiv(layer.material.k, FMul(layer.material.rho, layer.material.c))

\* getThermalDiffusivity, the scan over stack_.layers from layer k on
RECURSIVE diffusivityFrom(_, _, _, _)
diffusivityFrom(layers, k, xStart, x) ==
    IF k > Len(layers) THEN layerAlpha(layers[Len(layers)])
    ELSE IF x <= xStart + layers[k].thickness THEN layerAlpha(layers[k])
    ELSE diffusivityFrom(layers, k + 1, xStart + layers[k].thickness, x)

\* HeatEquationSolver::getThermalDiffusivity(i)
getThermalDiffusivity(s, i) ==
    diffusivityFrom(s.stack_.layers, 1, 0, At(s.stack_.xGrid, i))

\* the diffusion number r of interior row i for step size dt
interiorR(s, i, dt) ==
    LET x     == s.stack_.xGrid
        dxl   == FSub(At(x, i), At(x, i - 1))
        dxr   == FSub(At(x, i + 1), At(x, i))
        dxm   == FMul(Half, FAdd(dxl, dxr))
        alpha == getThermalDiffusivity(s, i)
    IN  FDiv(FMul(alpha, dt), FMul(dxm, dxm))

\* the diffusion number r of the inner boundary row (one-sided spacing)
innerR(s, dt) ==
    LET i     == s.problemSize_ - 1
        dx    == FSub(At(s.stack_.xGrid, i), At(s.stack_.xGrid, i - 1))
        alpha == getThermalDiffusivity(s, i)
    IN  FDiv(FMul(alpha, dt), FMul(dx, dx))

\* T[i-1] - 2*T[i] + T[i+1]
stencil(T, l, m, r) ==
    FAdd(FSub(At(T, l), FMul(Num(2), At(T, m))), At(T, r))

\* right-hand side of interior row i
interiorRhs(s, i, dt) ==
    FAdd(At(s.temperature_, i),
         FMul(FMul(One - s.theta_, interiorR(s, i, dt)),
              stencil(s.temperature_, i - 1, i, i + 1)))

\* right-hand side of the inner Neumann row (mirror point T[i+1] = T[i-1])
neumannRhs(s, dt) ==
    LET i == s.problemSize_ - 1
    IN  FAdd(At(s.temperature_, i),
             FMul(FMul(One - s.theta_, innerR(s, dt)),
                  stencil(s.temperature_, i - 1, i, i - 1)))

\* step(), part 2: the interior rows of a, b, c and rhs (all zero elsewhere)
interiorRows(s, dt) ==
    LET n == s.problemSize_
        interior(i) == 1 <= i /\ i <= n - 2
    IN  [a   |-> [j \in 1 .. n - 1 |->
                    IF interior(j) THEN FMul(-s.theta_, interiorR(s, j, dt)) ELSE 0],
         b   |-> [j \in 1 .. n |->
                    IF interior(j - 1)
                    THEN FAdd(One, FMul(2 * s.theta_, interiorR(s, j - 1, dt))) ELSE 0],
         c   |-> [j \in 1 .. n - 1 |->
                    IF interior(j - 1) THEN FMul(-s.theta_, interiorR(s, j - 1, dt)) ELSE 0],
         rhs |-> [j \in 1 .. n |->
                    IF interior(j - 1) THEN interiorRhs(s, j - 1, dt) ELSE 0]]

\* step(), part 3: Dirichlet outer boundary row
outerRow(s, sys) ==
    IF getType(s.outerBC_) = "Dirichlet"
    THEN [sys EXCEPT !.b[1] = One, !.rhs[1] = getValue(s.outerBC_), !.c[1] = 0]
    ELSE sys

\* step(): Dirichlet inner boundary row
innerDirichletRow(s, sys) ==
    LET n == s.problemSize_
    IN  IF getType(s.innerBC_) = "Dirichlet"
        THEN [sys EXCEPT !.b[n] = One, !.rhs[n] = getValue(s.innerBC_), !.a[n - 1] = 0]
        ELSE sys

\* step(): Neumann inner boundary row
innerNeumannRow(s, sys, dt) ==
    LET n == s.problemSize_
    IN  IF getType(s.innerBC_) = "Neumann"
        THEN [sys EXCEPT !.a[n - 1] = FMul(-(2 * s.theta_), innerR(s, dt)),
                         !.b[n] = FAdd(One, FMul(2 * s.theta_, innerR(s, dt))),
                         !.rhs[n] = neumannRhs(s, dt)]
        ELSE sys

\* step(), parts 1-4: the assembled tridiagonal system
assemble(s) ==
    LET dt == s.timeHandler_.dt
    IN  (CHOOSE out \in
            { (CHOOSE out \in
                { (CHOOSE out \in
                    { innerNeumannRow(s, r2, dt) :
                      r2 \in { innerDirichletRow(s, r1) } } : TRUE) :
                  r1 \in { outerRow(s, rows) } } : TRUE) :
              rows \in { interiorRows(s, dt) } } : TRUE)

\* HeatEquationSolver::step for problemSize_ >= 2 and both boundary conditions set
step(s) ==
    LET pushed(sys) ==
            [matrixSize |-> s.problemSize_, a_ |-> sys.a, b_ |-> sys.b, c_ |-> sys.c]
        update(sys, T) ==
            [s EXCEPT !.matrixSolver_ = pushed(sys),
                      !.temperature_ = T,
                      !.prevTemperature_ = T,
                      !.timeHandler_ = advance(s.timeHandler_)]
    IN  (CHOOSE out \in
            { (CHOOSE out \in
                { update(sys, T) :
                  T \in { solve(pushed(sys), sys.rhs) } } : TRUE) :
              sys \in { assemble(s) } } : TRUE)

\* HeatEquationSolver::isFinished
isFinished(s) == thIsFinished(s.timeHandler_)

\* HeatEquationSolver::getCurrentTime
getCurrentTime(s) == s.timeHandler_.currentTime

\* estimateError: the vector b after setupRHS and applyBoundaryConditions (which,
\* unlike step, tests the pointers and has no inner Dirichlet case)
halfStepRhs(s, dt) ==
    LET n == s.problemSize_
    IN  [j \in 1 .. n |->
            IF j = n /\ getType(s.innerBC_) = "Neumann" THEN neumannRhs(s, dt)
            ELSE IF j = 1 /\ getType(s.outerBC_) = "Dirichlet" THEN getValue(s.outerBC_)
            ELSE IF 2 <= j /\ j <= n - 1 THEN interiorRhs(s, j - 1, dt)
            ELSE 0]

\* estimateError: sum over i of (temp_half[i] - prevTemperature_[i])^2
RECURSIVE sumSquares(_, _, _)
sumSquares(u, v, i) ==
    IF i = 0 THEN 0
    ELSE FAdd(sumSquares(u, v, i - 1),
              FMul(FSub(u[i], v[i]), FSub(u[i], v[i])))

\* HeatEquationSolver::estimateError for problemSize_ >= 2.  The dense matrix A it
\* fills is never read: both solves use the coefficients matrixSolver_ holds from
\* the last step.  temperature_ is left at the first half-step result.  The value
\* is kept squared (error * error), the comparisons below square the threshold.
estimateError(s, dt) ==
    LET dtHalf == FDiv(dt, Num(2))
        second(first) ==
            LET s1 == [s EXCEPT !.temperature_ = first]
            IN  (CHOOSE out \in
                    { [solver |-> s1,
                         errorSq |-> FDiv(sumSquares(tempHalf, s.prevTemperature_,
                                                     s.problemSize_),
                                          Num(s.problemSize_))] :
                      tempHalf \in { solve(s.matrixSolver_, halfStepRhs(s1, dtHalf)) } } : TRUE)
    IN  (CHOOSE out \in
            { second(first) :
              first \in { solve(s.matrixSolver_, halfStepRhs(s, dtHalf)) } } : TRUE)

\* adjustTimeStep, BTCS branch: the largest diffusivity over the grid points
RECURSIVE maxAlphaUpTo(_, _)
maxAlphaUpTo(s, i) ==
    IF i < 0 THEN 0
    ELSE LET m == maxAlphaUpTo(s, i - 1)
             alpha == getThermalDiffusivity(s, i)
         IN  IF FGt(alpha, m) THEN alpha ELSE m

\* adjustTimeStep, BTCS branch: the smallest spacing xGrid[i+1] - xGrid[i], i < n - 1
RECURSIVE dxMinUpTo(_, _)
dxMinUpTo(s, i) ==
    LET dx == FSub(At(s.stack_.xGrid, i + 1), At(s.stack_.xGrid, i))
    IN  IF i = 0 THEN dx
        ELSE LET m == dxMinUpTo(s, i - 1) IN IF FLt(dx, m) THEN dx ELSE m

\* the BTCS branch doubling the step size instead of capping it
capTimeStep_Double(s, dxMin) ==
    [s EXCEPT !.timeHandler_ = thAdjustTimeStep(@, FMul(@.dt, Num(2)))]

\* adjustTimeStep, BTCS branch, with dx_min given
capTimeStep(s, dxMin) ==
    LET maxAlpha == maxAlphaUpTo(s, s.problemSize_ - 1)
        dtMax == FDiv(FMul(FMul(Half, dxMin), dxMin), maxAlpha)
    IN  IF FGt(s.timeHandler_.dt, dtMax)
        THEN [s EXCEPT !.timeHandler_ = thAdjustTimeStep(@, dtMax)]
        ELSE s

\* adjustTimeStep, Crank-Nicolson branch, with the estimate given
retime(s, errorSq, errorThreshold) ==
    LET dt == s.timeHandler_.dt
        halfThreshold == FDiv(errorThreshold, Num(2))
    IN  IF FGt(errorSq, FMul(errorThreshold, errorThreshold))
        THEN [s EXCEPT !.timeHandler_ = thAdjustTimeStep(@, FDiv(dt, Num(2)))]
        ELSE IF FLt(errorSq, FMul(halfThreshold, halfThreshold))
        THEN [s EXCEPT !.timeHandler_ = thAdjustTimeStep(@, FMul(dt, Num(2)))]
        ELSE s

\* HeatEquationSolver::adjustTimeStep(errorThreshold) for problemSize_ >= 2
adjustTimeStep(s, errorThreshold) ==
    IF s.theta_ = Half
    THEN (CHOOSE out \in
             { retime(e.solver, e.errorSq, errorThreshold) :
               e \in { estimateError(s, s.timeHandler_.dt) } } : TRUE)
    ELSE capTimeStep(s, dxMinUpTo(s, s.problemSize_ - 2))

\* HeatEquationSolver::getTemperatureDistribution
getTemperatureDistribution(s) == s.temperature_

\* ---------------------------------------------------- TemperatureComparator
\* TemperatureComparator members after construction
NewComparator == [compDt |-> One, compAdapt |-> FALSE, compPoints |-> 10]

\* static_cast<float>: binary32 keeps 24 significant bits
ToFloat(x) ==
    IF IsNaN(x) \/ (x < 2^24 /\ x > -(2^24)) THEN x ELSE RDiv(x, 256) * 256

\* std::log at the arguments 8 * l_over_L + 1 of the modelled slice positions
Ln(x) == IF x = One THEN 0 ELSE RDiv(21972 * One, 10000)

\* runSimulation: exhaust gas temperature at the slice
surfaceTemperature(lOverL) ==
    FAdd(FMul(-Num(100), Ln(FAdd(FMul(Num(8), lOverL), One))), Num(900))

\* runSimulation: while (!solver.isFinished()) solver.step()
RECURSIVE runToFinish(_)
runToFinish(s) ==
    IF isFinished(s) THEN s ELSE (CHOOSE out \in
                                     { runToFinish(next) :
                                       next \in { step(s) } } : TRUE)

\* TemperatureComparator::runSimulation
runSimulation(cmp, stack, duration, theta, lOverL) ==
    LET timeHandler == TimeHandler(duration, cmp.compDt, cmp.compAdapt)
        s1 == initialize(NewSolver(theta), stack, timeHandler)
        s2 == setInitialTemperature(s1, [j \in 1 .. Len(stack.xGrid) |-> Num(300)])
        s3 == setBoundaryConditions(s2,
                 DirichletCondition(ToFloat(surfaceTemperature(lOverL))),
                 NeumannCondition(0))
    IN  (CHOOSE out \in
            { getTemperatureDistribution(runToFinish(ready)) :
              ready \in { s3 } } : TRUE)

\* TemperatureComparator::setTimeStep
setTimeStep(cmp, dt, adaptive) == [cmp EXCEPT !.compDt = dt, !.compAdapt = adaptive]

\* TemperatureComparator::setGridResolution
setGridResolution(cmp, pointsPerLayer) == [cmp EXCEPT !.compPoints = pointsPerLayer]

\* double tolerance = 0.00001: one length unit
Tolerance == One

\* std::lower_bound(v.begin(), v.end(), x) - v.begin() on a sorted vector
lowerBound(v, x) ==
    LET ge == { i \in DOMAIN v : v[i] >= x }
    IN  IF ge = {} THEN Len(v)
        ELSE (CHOOSE i \in ge : \A j \in ge : i <= j) - 1

\* thickness = (minThickness + maxThickness) / 2.0
midpoint_Quarter(lo, hi) == FAdd(lo, FDiv(FSub(hi, lo), Num(4)))
midpoint(lo, hi) == FDiv(FAdd(lo, hi), Num(2))

\* the caller's Stack after a trial: testStack is a copy (Stack testStack = stack),
\* so the writes to testStack leave the const Stack& argument alone
callerStackAfter_Aliased(stack, testStack) == testStack
callerStackAfter(stack, testStack) == stack

\* suggestTPSThickness, loop body up to allUnder: one trial at `thickness`
trial(cmp, stack, args, thickness) ==
    LET sample(testStack, temperatures) ==
            LET xGrid == testStack.xGrid
                tpsThick    == testStack.layers[1].thickness
                carbonThick == testStack.layers[2].thickness
                glueThick   == testStack.layers[3].thickness
                posCarbonGlue == tpsThick + carbonThick
                posGlueSteel  == posCarbonGlue + glueThick
                idxCarbonGlue == lowerBound(xGrid, posCarbonGlue)
                idxGlueSteel  == lowerBound(xGrid, posGlueSteel)
                carbonTemp == At(temperatures, idxCarbonGlue)
                glueTemp   == At(temperatures, idxGlueSteel)
                steelTemp  == temperatures[Len(temperatures)]
            IN  [testStack |-> testStack,
                 idxCarbonGlue |-> idxCarbonGlue, idxGlueSteel |-> idxGlueSteel,
                 carbonTemp |-> carbonTemp, glueTemp |-> glueTemp,
                 steelTemp |-> steelTemp,
                 allUnder |-> /\ FLt(steelTemp, args.maxSteelTemp)
                              /\ FLt(glueTemp, args.maxGlueTemp)
                              /\ FLt(carbonTemp, args.maxCarbonTemp)]
    IN  (CHOOSE out \in
            { (CHOOSE out \in
                    { sample(testStack, temperatures) :
                      temperatures \in { runSimulation(cmp, testStack, args.duration, args.theta,
                                   args.lOverL) } } : TRUE) :
              testStack \in { generateGrid([stack EXCEPT !.layers[1].thickness = thickness],
                          cmp.compPoints) } } : TRUE)

\* suggestTPSThickness, lines 61-65, with the two assignments exchanged
nextBracket_Swapped(lo, hi, thickness, allUnder) ==
    IF allUnder THEN [minThickness |-> thickness, maxThickness |-> hi]
    ELSE [minThickness |-> lo, maxThickness |-> thickness]

\* suggestTPSThickness, lines 61-65: the bracket after a trial at `thickness`
nextBracket(lo, hi, thickness, allUnder) ==
    IF allUnder THEN [minThickness |-> lo, maxThickness |-> thickness]
    ELSE [minThickness |-> thickness, maxThickness |-> hi]

\* --------------------------------------------------------------------- state
VARIABLES
    gStack,     \* grid specification: the caller's Stack
    gFresh,     \* grid specification: generateGrid ran after the last thickness change
    gAgain,     \* grid specification: the last call was a generateGrid on a stack that
                \* generateGrid had just gridded with the same pointsPerLayer
    cmp,        \* the TemperatureComparator object
    callStack,  \* the Stack the caller passes to suggestTPSThickness by const reference
    callArgs,   \* the other arguments of suggestTPSThickness, and the props bracket
    sug,        \* the activation of suggestTPSThickness: its locals and its position
    solver,     \* a HeatEquationSolver object
    alive,      \* the process that owns the solver has not crashed
    lastCall,   \* the last member call on the solver: its name, argument, result
    life,       \* history of the solver: calls made so far
    clock,      \* a TimeHandler object
    clockLog,   \* history of the clock: its construction step size and its calls
    thomas,     \* a tridiagonal system: the coefficients, a known solution, the right-hand side
    thomasOut,  \* what BTCSMatrixSolver::solve returned for it
    bcHeap,     \* the BoundaryCondition objects created by new: how often each was deleted
    instances,  \* the HeatEquationSolver objects of the GUI driver and the pointers they hold
    aborted,    \* a double delete has aborted the process
    bcObj,      \* a BoundaryCondition object: the variant constructed and its constructor arguments
    bcQuery,    \* the last call on it: getType or getValue, the position passed, the value returned
    triggerSimulation, \* main_gui.cpp:61  a run was requested (shared, plain bool)
    simulationCompleted, \* main_gui.cpp:62  the last run reached its end (shared, plain bool)
    isSimThreadRunning, \* main_gui.cpp:2515 the main loop holds a future it has not seen ready
    progress,   \* main_gui.cpp:63  progress shown by the bar (0 .. MaxProgress)
    appLog,     \* main_gui.cpp:64  lines in the log (0 .. MaxLogLines)
    workers,    \* workers started by std::async, in order; the last is simulationFuture
    mainPc,     \* position of the main loop inside one frame
    guiCall,    \* the last thing the main loop did
    timer,      \* main_gui.cpp:1854 the TimeHandler of the caller, handed to initialize
    currentSolver, \* main_gui.cpp:1855 the solver the caller drives
    driverCall  \* the last statement of the caller: its name and what the solver's clock getters then said

gridVars == << gStack, gFresh, gAgain >>
optVars  == << cmp, callStack, callArgs, sug >>
solverVars == << solver, alive, lastCall, life >>
clockVars == << clock, clockLog >>
thomasVars == << thomas, thomasOut >>
ownerVars == << bcHeap, instances, aborted >>
bcVars == << bcObj, bcQuery >>
guiVars == << triggerSimulation, simulationCompleted, isSimThreadRunning, progress, appLog, workers, mainPc, guiCall >>
driverVars == << timer, currentSolver, driverCall >>
vars == << gStack, gFresh, gAgain, cmp, callStack, callArgs, sug, solver, alive, lastCall,
          life, clock, clockLog,
          thomas, thomasOut,
          bcHeap, instances, aborted,
          bcObj, bcQuery,
          triggerSimulation, simulationCompleted, isSimThreadRunning, progress, appLog, workers, mainPc, guiCall,
          timer, currentSolver, driverCall >>

\* ------------------------------------------------------------ input values
TPS    == Material(Num(2), Num(1), Num(1))
Carbon == Material(Num(8), Num(1), Num(1))
Glue   == Material(Num(4), Num(1), Num(1))
Steel  == Material(Num(2), Num(1), Num(1))
Materials == << TPS, Carbon, Glue, Steel >>

\* a Stack of Len(ths) layers with the given thicknesses, before generateGrid
StackOf(ths, ppl) ==
    NewStack([k \in DOMAIN ths |-> Layer(Materials[k], ths[k], ppl)])

\* the values the variables of the other specifications keep
IdleStack == generateGrid(StackOf(<< One >>, 2), 2)
IdleArgs == [maxSteelTemp |-> 0, maxGlueTemp |-> 0, maxCarbonTemp |-> 0,
             duration |-> 0, lOverL |-> 0, theta |-> One,
             minTPS |-> 0, maxTPS |-> 0]
IdleSug == [pc |-> "idle", minThickness |-> 0, maxThickness |-> 0, thickness |-> 0,
            testStack |-> IdleStack, allUnder |-> FALSE,
            iterations |-> 0, solves |-> 0, everUnder |-> FALSE, everOver |-> FALSE,
            entryStack |-> IdleStack, lastLo |-> 0, lastHi |-> 0,
            idxCarbonGlue |-> 0, idxGlueSteel |-> 0,
            carbonTemp |-> 0, glueTemp |-> 0, steelTemp |-> 0,
            outcome |-> "none", returned |-> 0]
IdleCall == [op |-> "none", arg |-> << >>, result |-> "ok"]
IdleLife == [initialized |-> FALSE, tempSet |-> FALSE, tempCalled |-> FALSE, calls |-> 0]
SolverIdle == solver = NewSolver(One) /\ alive = TRUE /\ lastCall = IdleCall
              /\ life = IdleLife
IdleClockLog == [dt0 |-> One, op |-> "none", arg |-> 0,
                 adjusts |-> 0, overrun |-> FALSE]
ClockIdle == clock = TimeHandler(0, One, FALSE) /\ clockLog = IdleClockLog
IdleThomas == [ms |-> NewMatrixSolver, xStar |-> << >>, d |-> << >>]
ThomasIdle == thomas = IdleThomas /\ thomasOut = << >>
\* the solver objects of the GUI driver: the global, and the two locals of
\* runSimulationLogic
Instances == { "solver", "currentSolver", "solverOpt" }
NoInstance == [live |-> FALSE, outerBC_ |-> 0, innerBC_ |-> 0]
OwnerIdle ==
    /\ bcHeap = << >>
    /\ instances = [s \in Instances |-> NoInstance]
    /\ aborted = FALSE
IdleQuery == [op |-> "none", position |-> << >>, result |-> 0, count |-> 0]
BoundaryIdle ==
    /\ bcObj = [made |-> "none", args |-> << >>, bc |-> NullBC]
    /\ bcQuery = IdleQuery
IdleGuiCall == [op |-> "none", disabled |-> FALSE, click |-> "none"]
GuiIdle ==
    /\ triggerSimulation = FALSE
    /\ simulationCompleted = FALSE
    /\ isSimThreadRunning = FALSE
    /\ progress = 0
    /\ appLog = 0
    /\ workers = << >>
    /\ mainPc = "trigger"
    /\ guiCall = IdleGuiCall
IdleDriverCall == [op |-> "none", finished |-> FALSE, time |-> 0]
DriverIdle ==
    /\ timer = TimeHandler(0, One, FALSE)
    /\ currentSolver = NewSolver(One)
    /\ driverCall = IdleDriverCall
GridIdle == gStack = IdleStack /\ gFresh = TRUE /\ gAgain = FALSE
OptIdle  == cmp = NewComparator /\ callStack = IdleStack /\ callArgs = IdleArgs
            /\ sug = IdleSug

\* ------------------------------------------------------- grid specification
\* layer thicknesses offered to the grid specification
GridThicknesses == { One, 3 * One, 3 * One + 1 }
PointChoices == 1 .. MaxPoints

GridLayerSeqs ==
    UNION { [1 .. n -> GridThicknesses] : n \in 1 .. MaxLayers }

GridInit ==
    /\ \E ths \in GridLayerSeqs, ppl \in PointChoices :
          gStack = generateGrid(StackOf(ths, ppl), ppl)
    /\ gFresh = TRUE
    /\ gAgain = FALSE
    /\ OptIdle
    /\ SolverIdle
    /\ ClockIdle
    /\ ThomasIdle
    /\ OwnerIdle
    /\ BoundaryIdle
    /\ GuiIdle
    /\ DriverIdle

\* s.layers[k].thickness = t
SetLayerThickness(k, t) ==
    /\ k \in DOMAIN gStack.layers
    /\ gStack' = [gStack EXCEPT !.layers[k].thickness = t]
    /\ gFresh' = FALSE
    /\ gAgain' = FALSE
    /\ UNCHANGED << driverVars, guiVars, bcVars, ownerVars, thomasVars, clockVars, optVars, solverVars >>

\* matProps.generateGrid(s, pointsPerLayer)
GenerateGridCall(ppl) ==
    /\ gStack' = generateGrid(gStack, ppl)
    /\ gFresh' = TRUE
    /\ gAgain' = (gFresh /\ \A k \in DOMAIN gStack.layers :
                                gStack.layers[k].numPoints = ppl)
    /\ UNCHANGED << driverVars, guiVars, bcVars, ownerVars, thomasVars, clockVars, optVars, solverVars >>

GridNext ==
    \/ \E k \in 1 .. MaxLayers, t \in GridThicknesses : SetLayerThickness(k, t)
    \/ \E ppl \in PointChoices : GenerateGridCall(ppl)

SpecGrid == GridInit /\ [][GridNext]_vars

\* sum of the thicknesses of layers 1 .. k
RECURSIVE cumThickness(_, _)
cumThickness(layers, k) ==
    IF k = 0 THEN 0 ELSE cumThickness(layers, k - 1) + layers[k].thickness

\* C9: after generateGrid the grid starts at 0, is strictly increasing, and its
\* last value is the sum of the layer thicknesses, which totalThickness records
C9_GridInvariant ==
    gFresh =>
        LET g == gStack.xGrid
            total == cumThickness(gStack.layers, Len(gStack.layers))
        IN  /\ g[1] = 0
            /\ \A i \in 1 .. Len(g) - 1 : g[i] < g[i + 1]
            /\ g[Len(g)] = total
            /\ gStack.totalThickness = total

\* C10: after generateGrid every layer boundary (the cumulative thickness of
\* layers 1..k) is one of the grid coordinates
C10_InterfacesOnGrid ==
    gFresh =>
        \A k \in DOMAIN gStack.layers :
            \E i \in DOMAIN gStack.xGrid :
                gStack.xGrid[i] = cumThickness(gStack.layers, k)

\* C11: a generateGrid call on a stack that generateGrid has just gridded, with
\* the same pointsPerLayer and the thicknesses untouched, leaves xGrid (length
\* and coordinates) and totalThickness as they were
C11_GenerateGridIdempotent ==
    [][ gAgain' => /\ gStack'.xGrid = gStack.xGrid
                   /\ gStack'.totalThickness = gStack.totalThickness ]_vars

C11_Witness ==
    /\ gAgain
    /\ Len(gStack.layers) >= 2
    /\ Len(gStack.xGrid) >= 5

\* C26: after generateGrid(stack, pointsPerLayer) the grid of a stack with L
\* layers has 1 + L * pointsPerLayer points
C26_PointsPerLayer ==
    gFresh =>
        \A k \in DOMAIN gStack.layers :
            Len(gStack.xGrid) = 1 + Len(gStack.layers) * gStack.layers[k].numPoints

\* -------------------------------------------------- optimizer specification
MaxWidth == 8          \* widest bracket, in tolerances

\* the bracket props.getMinTPSThickness() / getMaxTPSThickness() returns, scaled:
\* whole tolerances, so that binary fixed point holds every midpoint exactly
Brackets == { << Num(2), Num(2 + w) >> : w \in 2 .. MaxWidth }

\* ceilings (steel, glue, carbon) handed to suggestTPSThickness
Ceilings == { << Num(800), Num(400), Num(350) >>,
              << Num(330), Num(350), Num(380) >>,
              << Num(315), Num(328), Num(345) >>,
              << Num(300), Num(300), Num(300) >> }

OptInit ==
    /\ GridIdle
    /\ SolverIdle
    /\ ClockIdle
    /\ ThomasIdle
    /\ OwnerIdle
    /\ BoundaryIdle
    /\ GuiIdle
    /\ DriverIdle
    /\ \E ppl \in { 2, 3 } :
          /\ cmp = setGridResolution(setTimeStep(NewComparator, One, FALSE), ppl)
          /\ callStack = generateGrid(
                StackOf(<< Num(3), Num(2), Num(2), Num(2) >>, ppl), ppl)
    /\ \E br \in Brackets, ce \in Ceilings, th \in { One, Half },
          dur \in { Num(2), Num(4) }, lL \in { 0, One } :
          callArgs = [maxSteelTemp |-> ce[1], maxGlueTemp |-> ce[2],
                      maxCarbonTemp |-> ce[3], duration |-> dur, lOverL |-> lL,
                      theta |-> th, minTPS |-> br[1], maxTPS |-> br[2]]
    /\ sug = IdleSug

\* suggestTPSThickness, lines 24-27: the locals before the loop
SuggestEnter ==
    /\ sug.pc = "idle"
    /\ sug' = [sug EXCEPT !.pc = "loop",
                          !.minThickness = callArgs.minTPS,
                          !.maxThickness = callArgs.maxTPS,
                          !.thickness = callArgs.minTPS,
                          !.entryStack = callStack]
    /\ UNCHANGED << driverVars, guiVars, bcVars, ownerVars, thomasVars, clockVars, gridVars, solverVars, cmp, callStack, callArgs >>

\* suggestTPSThickness, lines 29-66: one pass of the while loop
BisectIteration ==
    /\ sug.pc = "loop"
    /\ FGt(FSub(sug.maxThickness, sug.minThickness), Tolerance)
    /\ \E thickness \in { midpoint(sug.minThickness, sug.maxThickness) } :
       \E t \in { trial(cmp, callStack, callArgs, thickness) } :
           /\ sug' = [sug EXCEPT
                  !.thickness = thickness,
                  !.testStack = t.testStack,
                  !.allUnder = t.allUnder,
                  !.maxThickness = nextBracket(sug.minThickness, sug.maxThickness,
                                               thickness, t.allUnder).maxThickness,
                  !.minThickness = nextBracket(sug.minThickness, sug.maxThickness,
                                               thickness, t.allUnder).minThickness,
                  !.idxCarbonGlue = t.idxCarbonGlue,
                  !.idxGlueSteel = t.idxGlueSteel,
                  !.carbonTemp = t.carbonTemp,
                  !.glueTemp = t.glueTemp,
                  !.steelTemp = t.steelTemp,
                  !.iterations = @ + 1,
                  !.solves = @ + 1,
                  !.everUnder = @ \/ t.allUnder,
                  !.everOver = @ \/ ~t.allUnder,
                  !.lastLo = sug.minThickness,
                  !.lastHi = sug.maxThickness]
           /\ callStack' = callerStackAfter(callStack, t.testStack)
    /\ UNCHANGED << driverVars, guiVars, bcVars, ownerVars, thomasVars, clockVars, gridVars, solverVars, cmp, callArgs >>

\* the value suggestTPSThickness hands back (line 67)
returnValue(s) == s.thickness

\* suggestTPSThickness, line 67: the loop condition fails and the value is returned
SuggestReturn ==
    /\ sug.pc = "loop"
    /\ ~FGt(FSub(sug.maxThickness, sug.minThickness), Tolerance)
    /\ sug' = [sug EXCEPT !.pc = "done", !.outcome = "value",
                          !.returned = returnValue(sug)]
    /\ UNCHANGED << driverVars, guiVars, bcVars, ownerVars, thomasVars, clockVars, gridVars, solverVars, cmp, callStack, callArgs >>

OptNext == SuggestEnter \/ BisectIteration \/ SuggestReturn

SpecOpt == OptInit /\ [][OptNext]_vars

\* a full solve at thickness th ends with the three sampled temperatures at or
\* below their ceilings
FeasibleAt(th) ==
    \E t \in { trial(cmp, callStack, callArgs, th) } :
        /\ FLe(t.steelTemp, callArgs.maxSteelTemp)
        /\ FLe(t.glueTemp, callArgs.maxGlueTemp)
        /\ FLe(t.carbonTemp, callArgs.maxCarbonTemp)

\* thicknesses at which feasibility is sampled: every half tolerance from one
\* tolerance below the bracket to its top, the returned value, and the
\* returned value minus the tolerance
Probes ==
    { callArgs.minTPS - Tolerance + j * Half :
        j \in 0 .. 2 * ((callArgs.maxTPS - callArgs.minTPS) \div One + 1) }
    \cup { sug.returned, sug.returned - Tolerance }

\* C1: when feasibility is monotone in the thickness and the bracket holds both
\* an infeasible and a feasible thickness, the returned thickness is feasible
\* and the returned thickness minus the tolerance is infeasible
C1_ReturnedIsSmallestFeasible ==
    sug.pc = "done" =>
        \E F \in { { p \in Probes : FeasibleAt(p) } } :
            ( /\ \A a \in F, b \in Probes : a < b => b \in F
              /\ \E p \in F : callArgs.minTPS <= p /\ p <= callArgs.maxTPS
              /\ \E p \in Probes \ F : callArgs.minTPS <= p /\ p <= callArgs.maxTPS )
            => /\ sug.returned \in F
               /\ (sug.returned - Tolerance) \notin F

\* C2: from entry to return of suggestTPSThickness the caller's Stack (layers,
\* point counts, xGrid, totalThickness) is what it was at entry
C2_CallerStackUntouched ==
    sug.pc # "idle" => callStack = sug.entryStack

C2_Witness ==
    /\ sug.pc = "done"
    /\ sug.iterations >= 2
    /\ sug.testStack.layers[1].thickness # callStack.layers[1].thickness
    /\ sug.testStack.xGrid # callStack.xGrid

\* smallest k with width / 2^k <= tol
RECURSIVE halvings(_, _)
halvings(width, tol) ==
    IF width <= tol THEN 0 ELSE 1 + halvings(width, 2 * tol)

\* C3: the loop ends after exactly the smallest k with width / 2^k <= tolerance
\* passes whatever the trials found, each pass runs one solve, and the value
\* returned is the midpoint of the last pass
C3_IterationCount ==
    sug.pc = "done" =>
        /\ sug.iterations = halvings(callArgs.maxTPS - callArgs.minTPS, Tolerance)
        /\ sug.solves = sug.iterations
        /\ 2 * sug.returned = sug.lastLo + sug.lastHi

C3_Witness ==
    /\ sug.pc = "done"
    /\ sug.iterations >= 3
    /\ sug.everUnder
    /\ sug.everOver

\* C22: from entry on, minTPS <= minThickness <= thickness <= maxThickness <=
\* maxTPS; after every pass the thickness is the midpoint of the bracket the pass
\* started from and exactly one bound was replaced by it, the upper one exactly
\* when the three sampled temperatures are strictly below their ceilings and
\* the lower one otherwise; the new width is half the old one (to the rounding
\* of the midpoint)
C22_BracketInvariant ==
    sug.pc # "idle" =>
        /\ callArgs.minTPS <= sug.minThickness
        /\ sug.minThickness <= sug.thickness
        /\ sug.thickness <= sug.maxThickness
        /\ sug.maxThickness <= callArgs.maxTPS
        /\ sug.iterations >= 1 =>
              /\ sug.thickness = midpoint(sug.lastLo, sug.lastHi)
              /\ IF /\ FLt(sug.steelTemp, callArgs.maxSteelTemp)
                    /\ FLt(sug.glueTemp, callArgs.maxGlueTemp)
                    /\ FLt(sug.carbonTemp, callArgs.maxCarbonTemp)
                 THEN sug.maxThickness = sug.thickness /\ sug.minThickness = sug.lastLo
                 ELSE sug.minThickness = sug.thickness /\ sug.maxThickness = sug.lastHi
              /\ Abs(2 * (sug.maxThickness - sug.minThickness)
                       - (sug.lastHi - sug.lastLo)) <= 1

C22_Witness ==
    /\ sug.pc = "loop"
    /\ sug.iterations >= 2
    /\ sug.everUnder /\ sug.everOver
    /\ sug.allUnder
    /\ callArgs.minTPS < sug.minThickness
    /\ sug.maxThickness < callArgs.maxTPS

\* C23: in every trial the carbon ceiling is checked at the first grid point at
\* or beyond the boundary between the first and the second layer, the glue
\* ceiling at the first grid point at or beyond the boundary between the second
\* and the third layer
C23_SampledInterfaces ==
    sug.iterations >= 1 =>
        /\ sug.idxCarbonGlue
              = lowerBound(sug.testStack.xGrid, cumThickness(sug.testStack.layers, 1))
        /\ sug.idxGlueSteel
              = lowerBound(sug.testStack.xGrid, cumThickness(sug.testStack.layers, 2))

\* C4: when no evaluated candidate met the ceilings, or every one did, the call
\* ends in an error instead of a value
C4_WrongBracketSignalled ==
    (sug.pc = "done" /\ (~sug.everUnder \/ ~sug.everOver)) => sug.outcome = "error"

\* ----------------------------------------------------- solver specification
MaxCalls == 5          \* member calls made on one solver

\* stacks handed to initialize: never gridded, one point, five points
SolverStacks ==
    { StackOf(<< Num(2) >>, 2),
      generateGrid(StackOf(<< Num(2) >>, 1), 1),
      generateGrid(StackOf(<< Num(2), Num(2) >>, 3), 3) }

SolverClocks == { TimeHandler(Num(1), One, TRUE), TimeHandler(Num(2), One, FALSE) }

\* pointer pairs handed to setBoundaryConditions
SolverBCs ==
    { << DirichletCondition(Num(400)), NeumannCondition(0) >>,
      << DirichletCondition(Num(400)), DirichletCondition(Num(300)) >>,
      << RobinCondition(One, Num(300)), NeumannCondition(0) >>,
      << NeumannCondition(0), RobinCondition(One, Num(300)) >>,
      << DirichletCondition(Num(400)), RobinCondition(One, Num(300)) >>,
      << DirichletCondition(Num(400)), NullBC >> }

\* what a read outside an object can see as a double
Garbage == { NaN, 0, Num(300) }

SolverInit ==
    /\ GridIdle
    /\ OptIdle
    /\ ClockIdle
    /\ ThomasIdle
    /\ OwnerIdle
    /\ BoundaryIdle
    /\ GuiIdle
    /\ DriverIdle
    /\ \E theta \in { One, Half } : solver = NewSolver(theta)
    /\ alive = TRUE
    /\ lastCall = IdleCall
    /\ life = IdleLife

\* the record of a call made now
Call(op, arg, result) == [op |-> op, arg |-> arg, result |-> result]

\* solver.initialize(stack, timeHandler)
Initialize(stack, timeHandler) ==
    /\ alive
    /\ life.calls < MaxCalls
    /\ solver' = initialize(solver, stack, timeHandler)
    /\ lastCall' = Call("initialize", << >>,
                        IF setupMatrixThrows(Len(stack.xGrid)) THEN "length_error"
                        ELSE "ok")
    /\ life' = [life EXCEPT !.initialized = TRUE, !.tempSet = FALSE,
                            !.calls = @ + 1]
    /\ UNCHANGED << driverVars, guiVars, bcVars, ownerVars, thomasVars, clockVars, gridVars, optVars, alive >>

\* solver.setInitialTemperature(initialTemp)
SetInitialTemperature(initialTemp) ==
    /\ alive
    /\ life.calls < MaxCalls
    /\ solver' = setInitialTemperature(solver, initialTemp)
    /\ lastCall' = Call("setInitialTemperature", initialTemp,
                        IF setInitialTemperatureThrows(solver, initialTemp)
                        THEN "runtime_error" ELSE "ok")
    /\ life' = [life EXCEPT
                  !.tempSet = IF setInitialTemperatureThrows(solver, initialTemp)
                              THEN @ ELSE life.initialized,
                  !.tempCalled = TRUE,
                  !.calls = @ + 1]
    /\ UNCHANGED << driverVars, guiVars, bcVars, ownerVars, thomasVars, clockVars, gridVars, optVars, alive >>

\* solver.setBoundaryConditions(outerBC, innerBC)
SetBoundaryConditions(outerBC, innerBC) ==
    /\ alive
    /\ life.calls < MaxCalls
    /\ solver' = setBoundaryConditions(solver, outerBC, innerBC)
    /\ lastCall' = Call("setBoundaryConditions", << >>, "ok")
    /\ life' = [life EXCEPT !.calls = @ + 1]
    /\ UNCHANGED << driverVars, guiVars, bcVars, ownerVars, thomasVars, clockVars, gridVars, optVars, alive >>

\* what ptr->getType() can yield: through a null pointer the behaviour is
\* undefined, the call faults or reads some type
seenTypes(bc) ==
    IF bc = NullBC THEN { "fault", "Dirichlet", "Neumann", "Robin" }
    ELSE { getType(bc) }

\* step() when the two getType() calls yield the types o and i
stepSeeing(s, o, i) ==
    IF o = "fault" \/ i = "fault" THEN [result |-> "crash", solver |-> s]
    ELSE IF \/ (o = "Dirichlet" /\ s.outerBC_ = NullBC)
            \/ (i = "Dirichlet" /\ s.innerBC_ = NullBC)
         THEN \* dynamic_cast of the null pointer yields null: runtime_error
              [result |-> "runtime_error", solver |-> s]
         ELSE [result |-> "ok",
               solver |-> [step([s EXCEPT !.outerBC_.type = o, !.innerBC_.type = i])
                              EXCEPT !.outerBC_ = s.outerBC_,
                                     !.innerBC_ = s.innerBC_]]

\* the field and clock a call leaves behind after reading or writing outside a
\* vector, when it does not fault
scribbled(s, g) ==
    [s EXCEPT !.temperature_ = [j \in 1 .. s.problemSize_ |-> g]]

\* every way a call of step() on s can end
stepOutcomes(s) ==
    IF setupMatrixThrows(s.problemSize_)
    THEN { [result |-> "length_error",
            solver |-> [s EXCEPT !.matrixSolver_ = setupMatrix(@, s.problemSize_)]] }
    ELSE IF s.problemSize_ = 1
    THEN \* c[0], a[n-2], xGrid[i-1], c_prime[0] lie outside their vectors
         { [result |-> "crash", solver |-> s] }
         \cup { [result |-> "ok",
                 solver |-> [scribbled(s, g) EXCEPT
                                !.prevTemperature_ = scribbled(s, g).temperature_,
                                !.timeHandler_ = advance(s.timeHandler_)]] :
                g \in Garbage }
    ELSE { stepSeeing(s, o, i) : o \in seenTypes(s.outerBC_),
                                  i \in seenTypes(s.innerBC_) }

\* solver.step()
Step ==
    /\ alive
    /\ life.calls < MaxCalls
    /\ \E out \in stepOutcomes(solver) :
          /\ solver' = out.solver
          /\ alive' = (out.result # "crash")
          /\ lastCall' = Call("step", << >>, out.result)
    /\ life' = [life EXCEPT !.calls = @ + 1]
    /\ UNCHANGED << driverVars, guiVars, bcVars, ownerVars, thomasVars, clockVars, gridVars, optVars >>

\* every way a call of adjustTimeStep(errorThreshold) on s can end
adjustOutcomes(s, errorThreshold) ==
    IF s.problemSize_ >= 2
    THEN { [result |-> "ok", solver |-> adjustTimeStep(s, errorThreshold)] }
    ELSE IF s.theta_ = Half
    THEN IF s.problemSize_ = 0
         THEN \* solve builds c_prime(matrixSize - 1): std::length_error; with an
              \* inner Neumann condition xGrid[-1] is read before that
              { [result |-> "length_error", solver |-> s] }
              \cup IF getType(s.innerBC_) = "Neumann"
                   THEN { [result |-> "crash", solver |-> s] } ELSE { }
         ELSE \* one point: solve writes c_prime[0] of an empty vector
              { [result |-> "crash", solver |-> s] }
              \cup { [result |-> "ok", solver |-> retime(scribbled(s, g), e, errorThreshold)] :
                     g \in Garbage, e \in Garbage }
    ELSE \* BTCS with fewer than two points: xGrid[1] lies outside the vector
         { [result |-> "crash", solver |-> s] }
         \cup { [result |-> "ok", solver |-> capTimeStep(s, g)] : g \in Garbage }

\* solver.adjustTimeStep(errorThreshold)
AdjustTimeStep(errorThreshold) ==
    /\ alive
    /\ life.calls < MaxCalls
    /\ \E out \in adjustOutcomes(solver, errorThreshold) :
          /\ solver' = out.solver
          /\ alive' = (out.result # "crash")
          /\ lastCall' = Call("adjustTimeStep", << >>, out.result)
    /\ life' = [life EXCEPT !.calls = @ + 1]
    /\ UNCHANGED << driverVars, guiVars, bcVars, ownerVars, thomasVars, clockVars, gridVars, optVars >>

\* arrays handed to setInitialTemperature: one entry short, exact, one too many
InitialTemps ==
    { [j \in 1 .. n |-> Num(300)] :
        n \in { m \in { solver.problemSize_ - 1, solver.problemSize_,
                        solver.problemSize_ + 1 } : m >= 0 } }

SolverNext ==
    \/ \E stack \in SolverStacks, th \in SolverClocks : Initialize(stack, th)
    \/ \E initialTemp \in InitialTemps : SetInitialTemperature(initialTemp)
    \/ \E bc \in SolverBCs : SetBoundaryConditions(bc[1], bc[2])
    \/ Step
    \/ \E thr \in { Num(1), Num(50) } : AdjustTimeStep(thr)

SpecSolver == SolverInit /\ [][SolverNext]_vars

\* C5: on an initialized solver a setInitialTemperature call whose array length
\* differs from the number of grid points ends in an error and leaves the whole
\* solver (field, previous field, problem size, boundary conditions, clock) as it
\* was; with the right length the field becomes the array
C5_SetInitialTemperature ==
    [][ (life.initialized /\ lastCall'.op = "setInitialTemperature") =>
            IF Len(lastCall'.arg) # Len(solver.stack_.xGrid)
            THEN lastCall'.result = "runtime_error" /\ solver' = solver
            ELSE /\ lastCall'.result = "ok"
                 /\ getTemperatureDistribution(solver') = lastCall'.arg ]_vars

C5_Witness ==
    /\ life.initialized
    /\ lastCall.op = "setInitialTemperature"
    /\ lastCall.result = "runtime_error"
    /\ Len(lastCall.arg) = Len(solver.stack_.xGrid) + 1
    /\ Len(solver.stack_.xGrid) >= 2

\* the field, the elapsed time and the step counter are the same in s and t
sameProgress(s, t) ==
    /\ t.temperature_ = s.temperature_
    /\ t.timeHandler_.currentTime = s.timeHandler_.currentTime
    /\ t.timeHandler_.stepCount = s.timeHandler_.stepCount

\* C6: a step() on a solver that lacks the outer or the inner boundary condition
\* is rejected with an error and leaves the field, the elapsed time and the
\* step counter unchanged
C6_StepNeedsBoundaryConditions ==
    [][ ( /\ lastCall'.op = "step"
          /\ (solver.outerBC_ = NullBC \/ solver.innerBC_ = NullBC) ) =>
            /\ lastCall'.result \in { "runtime_error", "length_error" }
            /\ sameProgress(solver, solver') ]_vars

\* C7: a step() issued before initialize and an accepted setInitialTemperature,
\* or once isFinished() holds, leaves the field, the elapsed time and the step
\* counter unchanged
C7_StepOnlyWhenReady ==
    [][ ( /\ lastCall'.op = "step"
          /\ (~(life.initialized /\ life.tempSet) \/ isFinished(solver)) ) =>
            sameProgress(solver, solver') ]_vars

\* the row assembly of step() has no branch for the kind at that end
unhandledKinds(s) ==
    \/ getType(s.outerBC_) \in { "Neumann", "Robin" }
    \/ getType(s.innerBC_) = "Robin"

\* C16: a step() on a solver whose outer condition is Neumann or Robin, or whose
\* inner condition is Robin, ends in an exception and leaves the field, the
\* elapsed time and the step counter unchanged
C16_UnhandledKindRejected ==
    [][ (lastCall'.op = "step" /\ unhandledKinds(solver)) =>
            /\ lastCall'.result \in { "runtime_error", "length_error" }
            /\ sameProgress(solver, solver') ]_vars

\* C17: when step() runs on an initialized solver on which setInitialTemperature
\* has never been called, the field holds 300 K at every grid point
C17_DefaultFieldIs300 ==
    [][ ( /\ lastCall'.op = "step"
          /\ life.initialized
          /\ ~life.tempCalled ) =>
            \A j \in DOMAIN solver.temperature_ : solver.temperature_[j] = Num(300) ]_vars

\* C18: after any initialize call, on a fresh solver or on one that was given an
\* initial temperature and stepped, the field has one entry per grid point and
\* every entry is zero
C18_InitializeZeroesField ==
    [][ lastCall'.op = "initialize" =>
            /\ Len(solver'.temperature_) = Len(solver'.stack_.xGrid)
            /\ \A j \in DOMAIN solver'.temperature_ : solver'.temperature_[j] = 0 ]_vars

\* C19: after a step() that returns on an adaptive BTCS solver with two or more
\* grid points and both boundary conditions set, the step size is within the limit 0.5 * dx_min^2 / alpha_max that
\* adjustTimeStep enforces (applying adjustTimeStep would not change it); on a
\* non-adaptive solver step() leaves the step size as it was
C19_StepAppliesTimeStepPolicy ==
    [][ ( /\ lastCall'.op = "step"
          /\ lastCall'.result = "ok"
          /\ solver.outerBC_ # NullBC /\ solver.innerBC_ # NullBC
          /\ solver.problemSize_ >= 2 ) =>
            /\ (solver.timeHandler_.adaptive /\ solver.theta_ = One) =>
                  adjustTimeStep(solver', Num(1)).timeHandler_.dt = solver'.timeHandler_.dt
            /\ ~solver.timeHandler_.adaptive =>
                  solver'.timeHandler_.dt = solver.timeHandler_.dt ]_vars

\* C21: after a step() that returns, on a grid of two or more points with both
\* boundary conditions set, the temperature at grid index 0 is the value of a
\* Dirichlet outer condition, and the temperature at the last grid index is the
\* value of a Dirichlet inner condition
C21_DirichletValueForced ==
    [][ ( /\ lastCall'.op = "step"
          /\ lastCall'.result = "ok"
          /\ solver.outerBC_ # NullBC /\ solver.innerBC_ # NullBC
          /\ solver.problemSize_ >= 2 ) =>
            /\ getType(solver.outerBC_) = "Dirichlet" =>
                  At(solver'.temperature_, 0) = getValue(solver.outerBC_)
            /\ getType(solver.innerBC_) = "Dirichlet" =>
                  At(solver'.temperature_, solver.problemSize_ - 1)
                     = getValue(solver.innerBC_) ]_vars

\* dt_max = 0.5 * dx_min * dx_min / maxAlpha of the BTCS branch
timeStepLimit(s) ==
    FDiv(FMul(FMul(Half, dxMinUpTo(s, s.problemSize_ - 2)),
              dxMinUpTo(s, s.problemSize_ - 2)),
         maxAlphaUpTo(s, s.problemSize_ - 1))

\* C24: on a solver with theta other than 0.5 and two or more grid points, a
\* step() leaves the step size as it is and an adjustTimeStep() leaves it as it
\* is or lowers it to dt_max = 0.5 * dx_min^2 / alpha_max; neither raises it
C24_StepSizeNeverRaised ==
    [][ (solver.theta_ # Half /\ solver.problemSize_ >= 2) =>
            /\ lastCall'.op = "step" =>
                  solver'.timeHandler_.dt = solver.timeHandler_.dt
            /\ lastCall'.op = "adjustTimeStep" =>
                  \/ solver'.timeHandler_.dt = solver.timeHandler_.dt
                  \/ /\ solver'.timeHandler_.dt = timeStepLimit(solver)
                     /\ solver'.timeHandler_.dt < solver.timeHandler_.dt ]_vars

C24_Witness ==
    /\ lastCall.op = "adjustTimeStep"
    /\ solver.theta_ = One
    /\ solver.problemSize_ >= 3
    /\ solver.outerBC_ # NullBC /\ solver.innerBC_ # NullBC
    /\ solver.timeHandler_.adaptive
    /\ solver.timeHandler_.stepCount >= 1
    /\ solver.timeHandler_.dt = timeStepLimit(solver)
    /\ solver.timeHandler_.dt < One

\* C25: an adjustTimeStep() that returns on a Crank-Nicolson solver with two or
\* more grid points and both boundary conditions set leaves the temperature
\* field, the elapsed time and the step counter as they were before the call
C25_EstimateRestoresField ==
    [][ ( /\ lastCall'.op = "adjustTimeStep"
          /\ lastCall'.result = "ok"
          /\ solver.theta_ = Half
          /\ solver.outerBC_ # NullBC /\ solver.innerBC_ # NullBC
          /\ life.tempSet
          /\ solver.timeHandler_.stepCount >= 1
          /\ solver.problemSize_ >= 2 ) =>
            sameProgress(solver, solver') ]_vars

\* an element access: the vector, the index used, the size of the vector
access(vector, index, size) == [vector |-> vector, index |-> index, size |-> size]

\* HeatEquationSolver::step, lines 47-109: the elements it reads and writes
\* for a solver of n points (a and c have n - 1 entries)
stepAccesses(s) ==
    LET n == s.problemSize_
    IN  UNION { { access("xGrid", i - 1, n), access("xGrid", i, n), access("xGrid", i + 1, n),
                  access("a", i - 1, n - 1), access("b", i, n), access("c", i, n - 1),
                  access("rhs", i, n), access("temperature_", i - 1, n),
                  access("temperature_", i, n), access("temperature_", i + 1, n) } :
                i \in 1 .. n - 2 }
        \cup ( IF getType(s.outerBC_) = "Dirichlet"
               THEN { access("b", 0, n), access("rhs", 0, n), access("c", 0, n - 1) }
               ELSE { } )
        \cup ( IF getType(s.innerBC_) = "Dirichlet"
               THEN { access("b", n - 1, n), access("rhs", n - 1, n),
                      access("a", n - 2, n - 1) }
               ELSE { } )
        \cup ( IF getType(s.innerBC_) = "Neumann"
               THEN { access("xGrid", n - 1, n), access("xGrid", n - 2, n),
                      access("a", n - 2, n - 1), access("b", n - 1, n),
                      access("rhs", n - 1, n), access("temperature_", n - 1, n),
                      access("temperature_", n - 2, n) }
               ELSE { } )

\* BTCSMatrixSolver::solve, lines 25-40: the elements it reads and writes
solveAccesses(matrixSize) ==
    LET n == matrixSize
    IN  { access("c_prime", 0, n - 1), access("c_", 0, n - 1), access("b_", 0, n),
          access("d_prime", 0, n), access("rhs", 0, n) }
        \cup UNION { { access("b_", i, n), access("a_", i - 1, n - 1),
                       access("c_prime", i - 1, n - 1), access("c_prime", i, n - 1),
                       access("c_", i, n - 1), access("d_prime", i, n),
                       access("d_prime", i - 1, n), access("rhs", i, n) } :
                     i \in 1 .. n - 2 }
        \cup { access("d_prime", n - 1, n), access("rhs", n - 1, n),
               access("a_", n - 2, n - 1), access("d_prime", n - 2, n),
               access("b_", n - 1, n), access("c_prime", n - 2, n - 1),
               access("x", n - 1, n) }
        \cup UNION { { access("x", i, n), access("d_prime", i, n),
                       access("c_prime", i, n - 1), access("x", i + 1, n) } :
                     i \in 0 .. n - 2 }

\* the accesses of one step() that fall outside their vector
outOfRange(s) ==
    { x \in stepAccesses(s) \cup solveAccesses(s.problemSize_) :
        x.index < 0 \/ x.index >= x.size }

\* C30: on a stack generateGrid accepts (at least one layer, pointsPerLayer at
\* least 1) with a Dirichlet outer and a Neumann inner condition, step() and
\* the tridiagonal solve read and write only elements inside their vectors.
C30_IndicesInRange ==
    [][ ( /\ lastCall'.op = "step"
          /\ life.initialized
          /\ Len(solver.stack_.layers) >= 1
          /\ solver.stack_.layers[1].numPoints >= 1
          /\ solver.stack_ = generateGrid(solver.stack_, solver.stack_.layers[1].numPoints)
          /\ solver.outerBC_ # NullBC /\ solver.innerBC_ # NullBC
          /\ getType(solver.outerBC_) = "Dirichlet"
          /\ getType(solver.innerBC_) = "Neumann" ) =>
            /\ outOfRange(solver) = { }
            /\ lastCall'.result # "crash" ]_vars

\* C8: once initialize has been called, the temperature field has one entry per
\* point of the solver's xGrid, whatever calls follow
C8_FieldMatchesGrid ==
    life.initialized =>
        Len(getTemperatureDistribution(solver)) = Len(solver.stack_.xGrid)

C8_Witness ==
    /\ alive
    /\ lastCall.op = "adjustTimeStep"
    /\ solver.theta_ = Half
    /\ solver.timeHandler_.stepCount >= 1
    /\ Len(solver.stack_.xGrid) >= 3
    /\ life.tempSet

\* ------------------------------------------------------ clock specification
MaxTotal == 1          \* largest total duration of a clock, in seconds
MaxTicks == 12         \* cap on the advance() calls made on one clock
MaxAdjusts == 2        \* cap on the adjustTimeStep calls made on one clock

\* step sizes: the doubles nearest to 0.1 s and 0.3 s, and 0.5 s, 1 s
ClockSteps == { RoundSig(RDiv(One, 10)), RoundSig(RDiv(3 * One, 10)), Half, One }
ClockTotals == { Num(t) : t \in 0 .. MaxTotal }

\* squared error estimates that HeatEquationSolver::adjustTimeStep can obtain
ClockErrors == { 0, Num(4), NaN }

\* a solver initialized on a five-point grid whose timeHandler_ is the clock
hostSolver(theta, th) ==
    initialize(NewSolver(theta), generateGrid(StackOf(<< Num(2), Num(2) >>, 3), 3), th)

ClockInit ==
    /\ GridIdle
    /\ OptIdle
    /\ SolverIdle
    /\ ThomasIdle
    /\ OwnerIdle
    /\ BoundaryIdle
    /\ GuiIdle
    /\ DriverIdle
    /\ \E totalTime \in ClockTotals, dt \in ClockSteps, adaptive \in BOOLEAN :
          /\ clock = TimeHandler(totalTime, dt, adaptive)
          /\ clockLog = [IdleClockLog EXCEPT !.dt0 = dt]

\* TimeHandler::advance(), inside or outside a  while (!isFinished())  loop
Advance ==
    /\ clock.stepCount < MaxTicks
    /\ clock' = advance(clock)
    /\ clockLog' = [clockLog EXCEPT !.op = "advance", !.arg = 0,
                                    !.overrun = @ \/ thIsFinished(clock)]
    /\ UNCHANGED << driverVars, guiVars, bcVars, ownerVars, thomasVars, gridVars, optVars, solverVars >>

\* TimeHandler::adjustTimeStep(newTimeStep)
AdjustClock(newTimeStep) ==
    /\ clockLog.adjusts < MaxAdjusts
    /\ clock' = thAdjustTimeStep(clock, newTimeStep)
    /\ clockLog' = [clockLog EXCEPT !.op = "adjustTimeStep", !.arg = newTimeStep,
                                    !.adjusts = @ + 1]
    /\ UNCHANGED << driverVars, guiVars, bcVars, ownerVars, thomasVars, gridVars, optVars, solverVars >>

\* HeatEquationSolver::adjustTimeStep(errorThreshold) of a solver that holds the
\* clock, with the error estimate of the Crank-Nicolson branch given
SolverAdjustClock(theta, errorSq, errorThreshold) ==
    /\ clockLog.adjusts < MaxAdjusts
    /\ \E host \in { hostSolver(theta, clock) } :
          clock' = IF theta = Half
                   THEN retime(host, errorSq, errorThreshold).timeHandler_
                   ELSE capTimeStep(host, dxMinUpTo(host, host.problemSize_ - 2)).timeHandler_
    /\ clockLog' = [clockLog EXCEPT !.op = "solverAdjustTimeStep", !.arg = errorThreshold,
                                    !.adjusts = @ + 1]
    /\ UNCHANGED << driverVars, guiVars, bcVars, ownerVars, thomasVars, gridVars, optVars, solverVars >>

ClockNext ==
    \/ Advance
    \/ \E newTimeStep \in ClockSteps : AdjustClock(newTimeStep)
    \/ \E theta \in { One, Half }, errorSq \in ClockErrors :
          SolverAdjustClock(theta, errorSq, Num(1))

SpecClock == ClockInit /\ [][ClockNext]_vars

\* the smallest integer k with k * b >= a, for a >= 0 and b > 0
ceilDiv(a, b) == (a + b - 1) \div b

\* C12: while the step size has never been adjusted and advance() has only been
\* called with isFinished() false, the elapsed time after k steps is k * dt;
\* isFinished() holds exactly when the elapsed time has reached the total
\* duration; and when it holds the loop has made ceil(T / dt) steps, the elapsed
\* time is in [T, T + dt) and equals T when T is a multiple of dt
C12_LoopStepCount ==
    (clockLog.adjusts = 0 /\ ~clockLog.overrun) =>
        /\ clock.currentTime = clock.stepCount * clock.dt
        /\ thIsFinished(clock) <=> clock.currentTime >= clock.totalTime
        /\ thIsFinished(clock) =>
              /\ clock.stepCount = ceilDiv(clock.totalTime, clock.dt)
              /\ clock.totalTime <= clock.currentTime
              /\ clock.currentTime < clock.totalTime + clock.dt
              /\ (clock.totalTime % clock.dt = 0 => clock.currentTime = clock.totalTime)

\* C13: adjustTimeStep, called on the clock or through the solver that holds it,
\* leaves the elapsed time, the step counter, the total duration and the adaptive
\* flag as they were; on an adaptive clock adjustTimeStep(x) makes the step size
\* x; on a non-adaptive clock no call changes the step size, which stays the
\* construction value
C13_AdjustTimeStep ==
    [][ /\ clockLog'.op \in { "adjustTimeStep", "solverAdjustTimeStep" } =>
            /\ clock'.currentTime = clock.currentTime
            /\ clock'.stepCount = clock.stepCount
            /\ clock'.totalTime = clock.totalTime
            /\ clock'.adaptive = clock.adaptive
        /\ (clockLog'.op = "adjustTimeStep" /\ clock.adaptive) =>
            clock'.dt = clockLog'.arg
        /\ ~clock.adaptive => clock'.dt = clockLog.dt0 ]_vars

C13_Witness ==
    /\ ~clock.adaptive
    /\ clockLog.op = "adjustTimeStep"
    /\ clockLog.arg # clock.dt
    /\ clock.stepCount >= 2
    /\ clock.dt = clockLog.dt0

\* ------------------------------------------- tridiagonal solve specification
MaxSize == 4           \* largest system handed to BTCSMatrixSolver::solve
Slack == 2             \* rounding allowance of a solve, in fixed-point quanta

\* rows (sub-diagonal, diagonal, super-diagonal) of strictly diagonally dominant
\* systems: an implicit diffusion row, a weaker one, an unsymmetric one
RowKinds ==
    { [a |-> -One, b |-> 3 * One, c |-> -One],
      [a |-> -Half, b |-> 2 * One, c |-> -Half],
      [a |-> Half, b |-> 3 * One, c |-> -One] }

\* entries of the known solution
KnownValues == { -One, 2 * One }

\* the solver after setupMatrix(n) and the assignment of a_, b_, c_ from the rows
withRows(rows) ==
    LET n == Len(rows)
    IN  [setupMatrix(NewMatrixSolver, n) EXCEPT
            !.a_ = [j \in 1 .. n - 1 |-> rows[j + 1].a],
            !.b_ = [j \in 1 .. n |-> rows[j].b],
            !.c_ = [j \in 1 .. n - 1 |-> rows[j].c]]

\* A * x for the tridiagonal A held by the solver
timesVector(ms, x) ==
    [j \in 1 .. ms.matrixSize |->
        FAdd(FAdd(IF j > 1 THEN FMul(ms.a_[j - 1], x[j - 1]) ELSE 0,
                  FMul(ms.b_[j], x[j])),
             IF j < ms.matrixSize THEN FMul(ms.c_[j], x[j + 1]) ELSE 0)]

ThomasInit ==
    /\ GridIdle
    /\ OptIdle
    /\ SolverIdle
    /\ ClockIdle
    /\ OwnerIdle
    /\ BoundaryIdle
    /\ GuiIdle
    /\ DriverIdle
    /\ \E n \in 3 .. MaxSize :
          \E rows \in [1 .. n -> RowKinds], xStar \in [1 .. n -> KnownValues] :
             \E ms \in { withRows(rows) } :
                thomas = [ms |-> ms, xStar |-> xStar, d |-> timesVector(ms, xStar)]
    /\ thomasOut = << >>

\* x = matrixSolver.solve(d)
Solve ==
    /\ thomasOut = << >>
    /\ ~solveThrows(thomas.ms, thomas.d)
    /\ thomasOut' = solve(thomas.ms, thomas.d)
    /\ UNCHANGED << driverVars, guiVars, bcVars, ownerVars, gridVars, optVars, solverVars, clockVars, thomas >>

ThomasNext == Solve

SpecThomas == ThomasInit /\ [][ThomasNext]_vars

\* C14: for a strictly diagonally dominant tridiagonal system of size n >= 3 and
\* d = A * xStar, solve(d) returns n values that are xStar, each to within the
\* rounding of the elimination's quotients and products
C14_SolveReproducesKnownSolution ==
    thomasOut # << >> =>
        /\ Len(thomasOut) = thomas.ms.matrixSize
        /\ \A j \in 1 .. thomas.ms.matrixSize :
              Abs(thomasOut[j] - thomas.xStar[j]) <= Slack

C14_Witness ==
    /\ thomasOut # << >>
    /\ thomas.ms.matrixSize >= 4
    /\ thomas.ms.a_[1] # thomas.ms.c_[1]
    /\ thomas.xStar[1] # thomas.xStar[2]
    /\ thomasOut = thomas.xStar

\* --------------------------------------- boundary-condition ownership
MaxObjects == 4        \* BoundaryCondition objects created by new

\* pointers are indices into bcHeap, 0 is nullptr

OwnerInit ==
    /\ GridIdle
    /\ OptIdle
    /\ SolverIdle
    /\ ClockIdle
    /\ ThomasIdle
    /\ OwnerIdle
    /\ BoundaryIdle
    /\ GuiIdle
    /\ DriverIdle

\* HeatEquationSolver::HeatEquationSolver: both pointers null
Construct(s) ==
    /\ ~aborted
    /\ ~instances[s].live
    /\ instances' = [instances EXCEPT ![s] = [live |-> TRUE, outerBC_ |-> 0, innerBC_ |-> 0]]
    /\ UNCHANGED << driverVars, guiVars, bcVars, gridVars, optVars, solverVars, clockVars, thomasVars, bcHeap, aborted >>

\* s.setBoundaryConditions(new DirichletCondition(..), new NeumannCondition(..)):
\* the two pointers are overwritten
SetNewBoundaryConditions(s) ==
    /\ ~aborted
    /\ instances[s].live
    /\ Len(bcHeap) + 2 <= MaxObjects
    /\ bcHeap' = bcHeap \o << [deletes |-> 0], [deletes |-> 0] >>
    /\ instances' = [instances EXCEPT ![s].outerBC_ = Len(bcHeap) + 1,
                                      ![s].innerBC_ = Len(bcHeap) + 2]
    /\ UNCHANGED << driverVars, guiVars, bcVars, gridVars, optVars, solverVars, clockVars, thomasVars, aborted >>

\* dst = src: the implicit copy assignment copies the two pointers
CopyAssign(dst, src) ==
    /\ ~aborted
    /\ dst # src
    /\ instances[dst].live /\ instances[src].live
    /\ instances' = [instances EXCEPT ![dst].outerBC_ = instances[src].outerBC_,
                                      ![dst].innerBC_ = instances[src].innerBC_]
    /\ UNCHANGED << driverVars, guiVars, bcVars, gridVars, optVars, solverVars, clockVars, thomasVars, bcHeap, aborted >>

\* dst = HeatEquationSolver(theta): copy assignment from a temporary whose
\* pointers are null, and the temporary's destructor deletes null pointers
AssignTemporary(dst) ==
    /\ ~aborted
    /\ instances[dst].live
    /\ instances' = [instances EXCEPT ![dst].outerBC_ = 0, ![dst].innerBC_ = 0]
    /\ UNCHANGED << driverVars, guiVars, bcVars, gridVars, optVars, solverVars, clockVars, thomasVars, bcHeap, aborted >>

\* the heap after  delete p; deletes counts 0, 1, and 2 for twice or more
deleted(heap, p) ==
    IF p = 0 THEN heap ELSE [heap EXCEPT ![p].deletes = IF @ >= 2 THEN 2 ELSE @ + 1]

\* delete p is undefined when the object was deleted before
doubleDelete(heap, p) == p # 0 /\ heap[p].deletes >= 1

\* HeatEquationSolver::~HeatEquationSolver: delete outerBC_; delete innerBC_;
\* a delete of a deleted object aborts the process or passes unnoticed
Destroy(s) ==
    /\ ~aborted
    /\ instances[s].live
    /\ bcHeap' = deleted(deleted(bcHeap, instances[s].outerBC_), instances[s].innerBC_)
    /\ instances' = [instances EXCEPT ![s] = NoInstance]
    /\ IF doubleDelete(bcHeap, instances[s].outerBC_)
          \/ doubleDelete(bcHeap, instances[s].innerBC_)
       THEN aborted' \in BOOLEAN
       ELSE aborted' = FALSE
    /\ UNCHANGED << driverVars, guiVars, bcVars, gridVars, optVars, solverVars, clockVars, thomasVars >>

OwnerNext ==
    \/ \E s \in Instances : Construct(s)
    \/ \E s \in Instances : SetNewBoundaryConditions(s)
    \/ \E dst \in Instances, src \in Instances : CopyAssign(dst, src)
    \/ \E dst \in Instances : AssignTemporary(dst)
    \/ \E s \in Instances : Destroy(s)

SpecOwner == OwnerInit /\ [][OwnerNext]_vars

\* the live solvers that hold the object in one of their two pointers
holders(p) ==
    { s \in Instances : instances[s].live
                        /\ (instances[s].outerBC_ = p \/ instances[s].innerBC_ = p) }

\* C15: no boundary-condition object is deleted twice, an object that no live
\* solver holds any more (its solver was destroyed or took other boundary
\* conditions) has been deleted, and no object is held by two live solvers
C15_ReleasedExactlyOnce ==
    \A p \in DOMAIN bcHeap :
        /\ bcHeap[p].deletes <= 1
        /\ holders(p) = {} => bcHeap[p].deletes = 1
        /\ Cardinality(holders(p)) <= 1

\* ---------------------------------------- boundary-condition specification
MaxQueries == 4        \* calls made on one BoundaryCondition object

\* constructor arguments: temperatures, fluxes, exchange coefficients
BoundaryValues == { 0, Half, Num(5), Num(25), Num(100) }

\* position arguments, as in the unit tests
Positions == { << 0, 0, 0 >>, << Half, Half, One >>, << One, One, Half >> }

BoundaryInit ==
    /\ GridIdle
    /\ OptIdle
    /\ SolverIdle
    /\ ClockIdle
    /\ ThomasIdle
    /\ OwnerIdle
    /\ GuiIdle
    /\ DriverIdle
    /\ \/ \E temperature \in BoundaryValues :
             bcObj = [made |-> "Dirichlet", args |-> << temperature >>,
                      bc |-> DirichletCondition(temperature)]
       \/ \E flux \in BoundaryValues :
             bcObj = [made |-> "Neumann", args |-> << flux >>,
                      bc |-> NeumannCondition(flux)]
       \/ \E h \in BoundaryValues, externalTemp \in BoundaryValues :
             bcObj = [made |-> "Robin", args |-> << h, externalTemp >>,
                      bc |-> RobinCondition(h, externalTemp)]
    /\ bcQuery = IdleQuery

\* bc.getType()
GetType ==
    /\ bcQuery.count < MaxQueries
    /\ bcQuery' = [op |-> "getType", position |-> << >>,
                   result |-> getType(bcObj.bc), count |-> bcQuery.count + 1]
    /\ UNCHANGED << driverVars, guiVars, gridVars, optVars, solverVars, clockVars, thomasVars, ownerVars, bcObj >>

\* bc.getValue(position)
GetValue(position) ==
    /\ bcQuery.count < MaxQueries
    /\ bcQuery' = [op |-> "getValue", position |-> position,
                   result |-> getValueAt(bcObj.bc, position), count |-> bcQuery.count + 1]
    /\ UNCHANGED << driverVars, guiVars, gridVars, optVars, solverVars, clockVars, thomasVars, ownerVars, bcObj >>

BoundaryNext ==
    \/ GetType
    \/ \E position \in Positions : GetValue(position)

SpecBoundary == BoundaryInit /\ [][BoundaryNext]_vars

\* C20: whatever the position and however many calls came before, getType
\* returns the kind of the variant that was constructed and getValue returns the
\* temperature of a Dirichlet condition, the flux of a Neumann condition and
\* h * externalTemp of a Robin condition
C20_BoundaryValueConstant ==
    /\ bcQuery.op = "getType" => bcQuery.result = bcObj.made
    /\ bcQuery.op = "getValue" =>
          bcQuery.result = IF bcObj.made = "Robin"
                           THEN FMul(bcObj.args[1], bcObj.args[2])
                           ELSE bcObj.args[1]

C20_Witness ==
    /\ bcQuery.op = "getValue"
    /\ bcQuery.count >= 3
    /\ bcQuery.position = << One, One, Half >>
    /\ bcObj.made = "Robin"
    /\ bcObj.args = << Half, Num(25) >>
    /\ bcQuery.result = 25 * Half

\* -------------------------------------------------------- GUI specification
\* main_gui.cpp: the main loop (the UI thread) and the workers it starts with
\* std::async. triggerSimulation, simulationCompleted, progress and appLog
\* are plain globals written by both threads without synchronisation; each
\* access is one step here, so that a read takes the value some interleaving
\* of the writes gives it.
MaxRuns == 3
MaxProgress == 2
MaxLogLines == 2

\* main_gui.cpp:2522, with the test on the earlier worker left out
mayStart_IgnoreRunning(trigger, running) == trigger
\* main_gui.cpp:2522  if (triggerSimulation && !isSimThreadRunning)
mayStart(trigger, running) == trigger /\ ~running

\* main_gui.cpp:310  the branch that draws the disabled "Running..." button
runControlDisabled(trigger) == trigger

\* a worker: where runSimulationLogic is, the solver steps it has reported,
\* and whether the UI thread reset the shared state while it was running
NewWorker == [state |-> "running", steps |-> 0, resets |-> FALSE]
unfinished == { w \in DOMAIN workers : workers[w].state # "ready" }
appendLine(log) == IF log < MaxLogLines THEN log + 1 ELSE log

GuiInit ==
    /\ GridIdle
    /\ OptIdle
    /\ SolverIdle
    /\ ClockIdle
    /\ ThomasIdle
    /\ OwnerIdle
    /\ BoundaryIdle
    /\ GuiIdle
    /\ DriverIdle

\* main_gui.cpp:2522-2527
MainHandleTrigger ==
    /\ mainPc = "trigger"
    /\ IF mayStart(triggerSimulation, isSimThreadRunning)
       THEN /\ workers' = Append(workers, NewWorker)
            /\ isSimThreadRunning' = TRUE
            /\ triggerSimulation' = FALSE
            /\ guiCall' = [IdleGuiCall EXCEPT !.op = "start"]
       ELSE /\ UNCHANGED << driverVars, workers, isSimThreadRunning, triggerSimulation >>
            /\ guiCall' = [IdleGuiCall EXCEPT !.op = "skip"]
    /\ mainPc' = "poll"
    /\ UNCHANGED << driverVars, gridVars, optVars, solverVars, clockVars, thomasVars, ownerVars, bcVars,
                    simulationCompleted, progress, appLog >>

\* main_gui.cpp:2530-2540
MainPoll ==
    /\ mainPc = "poll"
    /\ IF isSimThreadRunning /\ workers[Len(workers)].state = "ready"
       THEN /\ isSimThreadRunning' = FALSE
            /\ guiCall' = [IdleGuiCall EXCEPT !.op = "ready"]
       ELSE /\ UNCHANGED isSimThreadRunning
            /\ guiCall' = [IdleGuiCall EXCEPT !.op = "poll"]
    /\ mainPc' = "render"
    /\ UNCHANGED << driverVars, gridVars, optVars, solverVars, clockVars, thomasVars, ownerVars, bcVars,
                    triggerSimulation, simulationCompleted, progress, appLog, workers >>

\* main_gui.cpp:310-327 renderSimulationControls, and resetSimulation
\* (98-113) behind "Reset All"; click is what the user does in this frame
MainRender(click) ==
    /\ mainPc = "render"
    /\ click = "run" => Len(workers) < MaxRuns
    /\ guiCall' = [op |-> "render",
                   disabled |-> runControlDisabled(triggerSimulation),
                   click |-> click]
    /\ IF click = "run" /\ ~runControlDisabled(triggerSimulation)
       THEN /\ triggerSimulation' = TRUE
            /\ simulationCompleted' = FALSE
            /\ progress' = 0
            /\ appLog' = 0
            /\ workers' = [w \in DOMAIN workers |->
                             IF w \in unfinished
                             THEN [workers[w] EXCEPT !.resets = TRUE]
                             ELSE workers[w]]
       ELSE IF click = "reset"
       THEN /\ triggerSimulation' = FALSE
            /\ simulationCompleted' = FALSE
            /\ progress' = 0
            /\ appLog' = 0
            /\ workers' = [w \in DOMAIN workers |->
                             IF w \in unfinished
                             THEN [workers[w] EXCEPT !.resets = TRUE]
                             ELSE workers[w]]
       ELSE UNCHANGED << driverVars, triggerSimulation, simulationCompleted, progress, appLog, workers >>
    /\ mainPc' = "trigger"
    /\ UNCHANGED << driverVars, gridVars, optVars, solverVars, clockVars, thomasVars, ownerVars, bcVars,
                    isSimThreadRunning >>

\* main_gui.cpp:1896-1920  one solver step of the worker: it appends to the
\* history and writes the progress it computes from its own step count
WorkerReport(w) ==
    /\ workers[w].state = "running"
    /\ workers[w].steps < MaxProgress
    /\ workers' = [workers EXCEPT ![w].steps = @ + 1]
    /\ progress' = workers[w].steps + 1
    /\ appLog' = appendLine(appLog)
    /\ UNCHANGED << driverVars, gridVars, optVars, solverVars, clockVars, thomasVars, ownerVars, bcVars,
                    triggerSimulation, simulationCompleted, isSimThreadRunning, mainPc, guiCall >>

\* the ways runSimulationLogic ends: an early return after a failed input
\* check (main_gui.cpp:1733-1736), the normal end (2219-2220), a caught
\* exception (2222-2233)
WorkerStop(w, how) ==
    /\ workers[w].state = "running"
    /\ workers' = [workers EXCEPT ![w].state = "leaving"]
    /\ triggerSimulation' = FALSE
    /\ simulationCompleted' = IF how = "completed" THEN TRUE
                              ELSE IF how = "exception" THEN FALSE
                              ELSE simulationCompleted
    /\ appLog' = IF how = "completed" THEN appLog ELSE appendLine(appLog)
    /\ UNCHANGED << driverVars, gridVars, optVars, solverVars, clockVars, thomasVars, ownerVars, bcVars,
                    isSimThreadRunning, progress, mainPc, guiCall >>

\* runSimulationLogic returns: the future of this worker becomes ready
WorkerReturn(w) ==
    /\ workers[w].state = "leaving"
    /\ workers' = [workers EXCEPT ![w].state = "ready"]
    /\ UNCHANGED << driverVars, gridVars, optVars, solverVars, clockVars, thomasVars, ownerVars, bcVars,
                    triggerSimulation, simulationCompleted, isSimThreadRunning, progress,
                    appLog, mainPc, guiCall >>

GuiNext ==
    \/ MainHandleTrigger
    \/ MainPoll
    \/ \E click \in { "none", "run", "reset" } : MainRender(click)
    \/ \E w \in DOMAIN workers : WorkerReport(w)
    \/ \E w \in DOMAIN workers, how \in { "error", "completed", "exception" } : WorkerStop(w, how)
    \/ \E w \in DOMAIN workers : WorkerReturn(w)

SpecGui == GuiInit /\ [][GuiNext]_vars

\* C27: while a worker is running, a frame of the main loop draws the Run
\* control disabled, and the UI thread neither sets triggerSimulation again
\* nor resets the log, the progress or the completion flag.
C27_RunControlDisabledDuringRun ==
    [][ ( /\ mainPc = "render"
          /\ mainPc' = "trigger"
          /\ unfinished # { } ) =>
            /\ guiCall'.disabled
            /\ triggerSimulation' = triggerSimulation
            /\ simulationCompleted' = simulationCompleted
            /\ progress' = progress
            /\ appLog' = appLog ]_vars

\* C28: at most one worker exists at any time; the main loop starts a worker
\* only when triggerSimulation is set and every earlier worker has returned,
\* and it clears isSimThreadRunning only when the future of the worker it
\* started is ready.
C28_AtMostOneWorker ==
    [][ /\ Cardinality({ w \in DOMAIN workers' : workers'[w].state # "ready" }) <= 1
        /\ Len(workers') > Len(workers) =>
              /\ triggerSimulation
              /\ unfinished = { }
        /\ (isSimThreadRunning /\ ~isSimThreadRunning') =>
              workers[Len(workers)].state = "ready" ]_vars

\* a second worker runs after the first returned, the run having been
\* requested by a click made while the first was still in runSimulationLogic
C28_Witness ==
    /\ Len(workers) = 2
    /\ workers[1].state = "ready"
    /\ workers[1].resets
    /\ workers[2].state = "running"
    /\ workers[2].steps >= 1
    /\ isSimThreadRunning
    /\ guiCall.op = "render"

\* ----------------------------------------------------- driver specification
\* The caller of the solver, as in runSimulationLogic (main_gui.cpp:1854-1920):
\* it constructs a TimeHandler, hands it to initialize, then calls step() on
\* the solver and advance() on its own TimeHandler.
MaxDriverSteps == 3

DriverClocks ==
    { TimeHandler(Num(2), One, FALSE), TimeHandler(Num(2), One, TRUE),
      TimeHandler(Num(1), Half, TRUE) }
DriverStacks ==
    { generateGrid(StackOf(<< Num(2) >>, 3), 3),
      generateGrid(StackOf(<< Num(2), Num(2) >>, 3), 3) }

\* the caller's TimeHandler after a call on the solver, were timeHandler_ a
\* reference to it
callerTimerAfter_Aliased(th, s) == s.timeHandler_
\* HeatEquationSolver.h:17,47  initialize takes a const reference and
\* timeHandler_ is a TimeHandler held by value: the caller's object is not
\* touched by the solver
callerTimerAfter(th, s) == th

\* what the caller sees after a statement
Seen(op, s) == [op |-> op, finished |-> isFinished(s), time |-> getCurrentTime(s)]

DriverInit ==
    /\ GridIdle
    /\ OptIdle
    /\ SolverIdle
    /\ ClockIdle
    /\ ThomasIdle
    /\ OwnerIdle
    /\ BoundaryIdle
    /\ GuiIdle
    /\ timer \in DriverClocks
    /\ \E theta \in { One, Half } : currentSolver = NewSolver(theta)
    /\ driverCall = IdleDriverCall

\* main_gui.cpp:1856-1880  initialize, setInitialTemperature(300 K) and
\* setBoundaryConditions(Dirichlet, Neumann 0)
DriverSetUp(stack, exhaustTemp) ==
    /\ driverCall.op = "none"
    /\ \E s \in { setBoundaryConditions(
                    setInitialTemperature(initialize(currentSolver, stack, timer),
                                          [j \in 1 .. Len(stack.xGrid) |-> Num(300)]),
                    DirichletCondition(exhaustTemp), NeumannCondition(0)) } :
          /\ currentSolver' = s
          /\ timer' = callerTimerAfter(timer, s)
          /\ driverCall' = Seen("initialize", s)
    /\ UNCHANGED << gridVars, optVars, solverVars, clockVars, thomasVars, ownerVars,
                    bcVars, guiVars >>

\* main_gui.cpp:1898  currentSolver.step()
DriverStep ==
    /\ driverCall.op # "none"
    /\ currentSolver.timeHandler_.stepCount < MaxDriverSteps
    /\ \E s \in { step(currentSolver) } :
          /\ currentSolver' = s
          /\ timer' = callerTimerAfter(timer, s)
          /\ driverCall' = Seen("step", s)
    /\ UNCHANGED << gridVars, optVars, solverVars, clockVars, thomasVars, ownerVars,
                    bcVars, guiVars >>

\* main_gui.cpp:1917  timer.advance()
DriverAdvance ==
    /\ driverCall.op # "none"
    /\ timer.stepCount < MaxDriverSteps
    /\ timer' = advance(timer)
    /\ driverCall' = Seen("advance", currentSolver)
    /\ UNCHANGED << gridVars, optVars, solverVars, clockVars, thomasVars, ownerVars,
                    bcVars, guiVars, currentSolver >>

\* the caller changes the step size of its own TimeHandler
DriverRetime(newTimeStep) ==
    /\ driverCall.op # "none"
    /\ timer' = thAdjustTimeStep(timer, newTimeStep)
    /\ driverCall' = Seen("adjustTimeStep", currentSolver)
    /\ UNCHANGED << gridVars, optVars, solverVars, clockVars, thomasVars, ownerVars,
                    bcVars, guiVars, currentSolver >>

DriverNext ==
    \/ \E stack \in DriverStacks, exhaustTemp \in { Num(400), Num(300) } :
          DriverSetUp(stack, exhaustTemp)
    \/ DriverStep
    \/ DriverAdvance
    \/ \E newTimeStep \in { Half, One } : DriverRetime(newTimeStep)

SpecDriver == DriverInit /\ [][DriverNext]_vars

\* C29: initialize stores a copy of the caller's TimeHandler. A step()
\* advances the solver's own clock by one step and leaves the caller's
\* TimeHandler as it was; what isFinished() and getCurrentTime() return
\* follows the solver's copy only, so a call on the caller's TimeHandler does
\* not change them.
C29_PrivateClock ==
    [][ /\ driverCall'.op = "initialize" =>
              /\ timer' = timer
              /\ currentSolver'.timeHandler_ = timer
        /\ driverCall'.op = "step" =>
              /\ timer' = timer
              /\ currentSolver'.timeHandler_ = advance(currentSolver.timeHandler_)
        /\ driverCall'.op \in { "advance", "adjustTimeStep" } =>
              /\ currentSolver'.timeHandler_ = currentSolver.timeHandler_
              /\ driverCall'.finished = isFinished(currentSolver)
              /\ driverCall'.time = getCurrentTime(currentSolver)
        /\ driverCall'.finished = thIsFinished(currentSolver'.timeHandler_)
        /\ driverCall'.time = currentSolver'.timeHandler_.currentTime ]_vars

\* the solver has stepped to the end of its copy while the caller's
\* TimeHandler is still at time zero
C29_Witness ==
    /\ driverCall.op = "step"
    /\ driverCall.finished
    /\ currentSolver.timeHandler_.stepCount = 2
    /\ timer.stepCount = 0
    /\ timer.currentTime = 0
    /\ ~thIsFinished(timer)

====
